---- MODULE Spec2Model ----
(***************************************************************************)
(* A model of multidirmap.MultiDirMap: a table whose first NK columns are  *)
(* key columns, each with its own insertion-ordered index (ReadOnlyDict)   *)
(* from key value to row object.  Rows are objects with identity: the same *)
(* row is referenced from every index, and a row's fields live in the row, *)
(* not in the index.                                                       *)
(***************************************************************************)
EXTENDS Integers, Sequences, FiniteSets, TLC

\* len(columns) and key_columns of the table under study: three key columns
\* and one data column, as in the periodic-table example of the tests.
NC == 4
NK == 3
\* Key and field values are the small integers 1..NV.
NV == 2
\* Longest batch handed to update().
MaxBatch == 2
\* Longest sequence of public calls made on one table.
MaxCalls == 3

Cols == 1..NC
KeyCols == 1..NK
Primary == 1
Vals == 1..NV
\* Python's None (the padding of short rows).
None == 0
\* The values a caller writes to a row's field: those of the batches and one
\* value no batch row carries.
FieldVals == 1..(NV + 1)

\* Row objects are named by identities; enough of them for every index slot
\* to hold a different row while a batch creates MaxBatch more.
Ids == 1..(NK * NV + MaxBatch)
NoRow == <<>>

Policies == {"none", "primary", "secondary", "all"}

VARIABLES
    idx,    \* idx[c]: the index of key column c, a sequence of <<key, row id>>
    heap,   \* heap[i]: the field values of row object i (NoRow: no such object)
    last,   \* the call that just returned, with the state it was made in
    calls,  \* the number of public calls made so far
    ro      \* ro[c]: the _read_only flag of the index of key column c

vars == <<idx, heap, last, calls, ro>>

-----------------------------------------------------------------------------
(* The insertion-ordered dict under ReadOnlyDict. *)

Has(d, k) == \E i \in 1..Len(d) : d[i][1] = k
Pos(d, k) == CHOOSE i \in 1..Len(d) : d[i][1] = k
Get(d, k) == d[Pos(d, k)][2]
Keys(d) == {d[i][1] : i \in 1..Len(d)}
KeyList(d) == [i \in 1..Len(d) |-> d[i][1]]

\* (A variant of d[k] = v that moves an existing key to the end.)
Put_MovesToEnd(d, k, v) ==
    IF Has(d, k)
    THEN Append(SubSeq(d, 1, Pos(d, k) - 1) \o SubSeq(d, Pos(d, k) + 1, Len(d)),
                <<k, v>>)
    ELSE Append(d, <<k, v>>)

\* d[k] = v: an existing key keeps its position, a new key goes last.
Put(d, k, v) ==
    IF Has(d, k) THEN [d EXCEPT ![Pos(d, k)] = <<k, v>>]
    ELSE Append(d, <<k, v>>)

\* del d[k], for a key that is present.
Del(d, k) ==
    LET p == Pos(d, k) IN SubSeq(d, 1, p - 1) \o SubSeq(d, p + 1, Len(d))

\* del self._key_dicts[col][key] for each <<col, key>> of pairs, in order; the
\* first missing key raises KeyError and leaves the rest undone.
RECURSIVE DelAll(_, _)
DelAll(ix, pairs) ==
    IF pairs = <<>> THEN [idx |-> ix, ok |-> TRUE]
    ELSE LET c == pairs[1][1]
             k == pairs[1][2]
         IN IF ~Has(ix[c], k) THEN [idx |-> ix, ok |-> FALSE]
            ELSE DelAll([ix EXCEPT ![c] = Del(ix[c], k)], Tail(pairs))

\* The row objects some index refers to.
Live(ix) == UNION {{ix[c][i][2] : i \in 1..Len(ix[c])} : c \in KeyCols}

\* Row objects no index refers to are gone.
Collect(ix, h) == [i \in Ids |-> IF i \in Live(ix) THEN h[i] ELSE NoRow]

\* A set of small integers as the list a Python set iterates in.
RECURSIVE Ascending(_)
Ascending(S) ==
    IF S = {} THEN <<>>
    ELSE LET m == CHOOSE x \in S : \A y \in S : x <= y
         IN <<m>> \o Ascending(S \ {m})

RECURSIVE Flatten(_)
Flatten(ss) == IF ss = <<>> THEN <<>> ELSE ss[1] \o Flatten(Tail(ss))

-----------------------------------------------------------------------------
(* ReadOnlyDict's lock and MultiDirMap._writable.  Every write the table   *)
(* makes to an index is made inside "with self._writable()", that is with  *)
(* the flags off; what is left to tell is the flags a call leaves behind   *)
(* and what a caller gets who writes to an index himself.                  *)

\* _read_only = True, the class attribute a new ReadOnlyDict starts with.
Locked == [c \in KeyCols |-> TRUE]

\* for keydict in self._key_dicts.values(): keydict._set_read_only(False)
WritableEnter(flags) == [c \in KeyCols |-> FALSE]

\* (A variant without try/finally: an exception leaves the flags off.)
WritableExit_NoFinally(flags, exc) ==
    IF exc = "none" THEN [c \in KeyCols |-> TRUE] ELSE flags

\* finally: keydict._set_read_only(True) for every index, whether the body
\* returned or raised exc.
WritableExit(flags, exc) == [c \in KeyCols |-> TRUE]

\* The flags after a call that entered the with block (or did not) and ended
\* with exc.
Writable(flags, entered, exc) ==
    IF entered THEN WritableExit(WritableEnter(flags), exc) ELSE flags

\* The methods of an index a caller may use: those of dict that change it,
\* and lookup, length, iteration and comparison.
Mutators == {"setitem", "delitem", "clear", "pop", "popitem", "setdefault", "update"}
Reads == {"getitem", "len", "iter", "eq"}
IndexOps == Mutators \cup Reads
\* (A variant in which setdefault is not wrapped.)
Wrapped_NoSetdefault == {"setitem", "delitem", "clear", "pop", "popitem", "update"}
\* The methods decorated with @if_not_read_only.
Wrapped == {"setitem", "delitem", "clear", "pop", "popitem", "setdefault", "update"}

\* The method of dict: what it leaves of d, what it raises and returns.
DictOp(d, op, key, value) ==
    LET res(e, exc, ret) == [d |-> e, exc |-> exc, ret |-> ret]
    IN CASE op = "setitem" -> res(Put(d, key, value), "none", None)
         [] op = "update" -> res(Put(d, key, value), "none", None)
         [] op = "setdefault" ->
              IF Has(d, key) THEN res(d, "none", None)
              ELSE res(Put(d, key, value), "none", None)
         [] op \in {"delitem", "pop"} ->
              IF Has(d, key)
              THEN res(Del(d, key), "none", IF op = "pop" THEN Get(d, key) ELSE None)
              ELSE res(d, "KeyError", None)
         [] op = "popitem" ->
              IF Len(d) = 0 THEN res(d, "KeyError", None)
              ELSE res(SubSeq(d, 1, Len(d) - 1), "none", d[Len(d)][2])
         [] op = "clear" -> res(<<>>, "none", None)
         [] op = "getitem" ->
              IF Has(d, key) THEN res(d, "none", Get(d, key))
              ELSE res(d, "KeyError", None)
         [] op = "len" -> res(d, "none", Len(d))
         [] OTHER -> res(d, "none", None)

\* if_not_read_only: a wrapped method raises TypeError while the flag is on.
IndexOpRun(d, flag, op, key, value) ==
    IF op \in Wrapped /\ flag THEN [d |-> d, exc |-> "TypeError", ret |-> None]
    ELSE DictOp(d, op, key, value)

-----------------------------------------------------------------------------
(* MultiDirMap.update *)

\* duplicates: per key column, whether the row's value is already a key.
Duplicates(ix, row) == [c \in KeyCols |-> Has(ix[c], row[c])]

AnyDup(dups) == \E c \in KeyCols : dups[c]

\* (A variant that rejects under "primary" only when every secondary key
\* column collides.)
NotInsertable_AllSecondaries(overwrite, dups) ==
    \/ overwrite = "none"
    \/ overwrite = "primary" /\ \A c \in KeyCols \ {Primary} : dups[c]
    \/ overwrite = "secondary" /\ dups[Primary]

\* The constellations that do not allow inserting the new entry.
NotInsertable(overwrite, dups) ==
    \/ overwrite = "none"
    \/ overwrite = "primary" /\ \E c \in KeyCols \ {Primary} : dups[c]
    \/ overwrite = "secondary" /\ dups[Primary]

\* (A variant that marks only the colliding key itself, not the other key
\* values of the row found under it.)
DetermineDeletable_OwnKeyOnly(ix, h, row, dups, todel) ==
    [c \in KeyCols |-> todel[c] \cup (IF dups[c] THEN {row[c]} ELSE {})]

\* _determine_deletable: every key-column value of every row found under a
\* duplicate key is marked for deletion in its column.
DetermineDeletable(ix, h, row, dups, todel) ==
    [c \in KeyCols |->
        todel[c] \cup {h[Get(ix[d], row[d])][c] : d \in {e \in KeyCols : dups[e]}}]

\* The keys a row adds, as the dict added_entry: <<col, key>> in column order.
RECURSIVE AddedEntry(_, _, _)
AddedEntry(row, dups, c) ==
    IF c > NK THEN <<>>
    ELSE (IF dups[c] THEN <<>> ELSE <<<<c, row[c]>>>>) \o AddedEntry(row, dups, c + 1)

\* The dict backup, keyed by the key value alone: <<key, <<col, old row>>>>.
RECURSIVE Backup(_, _, _, _)
Backup(ix, row, dups, c) ==
    IF c = 0 THEN <<>>
    ELSE LET b == Backup(ix, row, dups, c - 1)
         IN IF dups[c] THEN Put(b, row[c], <<c, Get(ix[c], row[c])>>) ELSE b

\* self._key_dicts[col][key] = new_entry for every key column.
InsertRow(ix, row, id) == [c \in KeyCols |-> Put(ix[c], row[c], id)]

\* _rollback: delete the added entries, then restore the backups.
RECURSIVE Restore(_, _)
Restore(ix, bs) ==
    IF bs = <<>> THEN ix
    ELSE LET k == bs[1][1]
             c == bs[1][2][1]
             r == bs[1][2][2]
         IN Restore([ix EXCEPT ![c] = Put(ix[c], k, r)], Tail(bs))

\* (A variant that restores the backups and leaves the added entries.)
Rollback_RestoreOnly(ix, added, backups) ==
    [idx |-> Restore(ix, Flatten(backups)), ok |-> TRUE]

Rollback(ix, added, backups) ==
    LET d == DelAll(ix, Flatten(added))
    IN IF d.ok THEN [idx |-> Restore(d.idx, Flatten(backups)), ok |-> TRUE]
       ELSE d

\* (A variant that marks the rows found under the duplicate keys for deletion
\* before it skips the row.)
SkipRow_Marks(st, row, dups) ==
    [st EXCEPT !.todel = DetermineDeletable(st.idx, st.heap, row, dups, @)]

\* if skip_duplicates: return -- the row is dropped and nothing is touched.
SkipRow(st, row, dups) == st

\* _add_entry for one row of the batch, on the running state st of update().
AddEntry(st, row, id, overwrite, skip) ==
    LET dups == Duplicates(st.idx, row)
        h == [st.heap EXCEPT ![id] = row]
        found == [c \in KeyCols |-> IF dups[c] THEN Get(st.idx[c], row[c]) ELSE 0]
        rec(outcome, pending) ==
            [dups |-> dups, found |-> found, outcome |-> outcome, id |-> id,
             todel |-> pending]
    IN IF ~AnyDup(dups) THEN
           [st EXCEPT !.idx = InsertRow(st.idx, row, id),
                      !.heap = h,
                      !.added = Append(@, AddedEntry(row, dups, 1)),
                      !.log = Append(@, rec("added", st.todel))]
       ELSE IF NotInsertable(overwrite, dups) THEN
           IF skip THEN [SkipRow(st, row, dups) EXCEPT !.log = Append(@, rec("skipped", st.todel))]
           ELSE LET rb == Rollback(st.idx, st.added, st.backups)
                IN [st EXCEPT !.idx = rb.idx,
                              !.exc = IF rb.ok THEN "DuplicateKeyError" ELSE "KeyError",
                              !.log = Append(@, rec("rejected", st.todel))]
       ELSE LET marked == DetermineDeletable(st.idx, st.heap, row, dups, st.todel)
                todel == [c \in KeyCols |-> marked[c] \ {row[c]}]
            IN IF overwrite = "all" THEN
                   [st EXCEPT !.idx = InsertRow(st.idx, row, id),
                              !.heap = h,
                              !.todel = todel,
                              !.log = Append(@, rec("overwrote", todel))]
               ELSE
                   [st EXCEPT !.idx = InsertRow(st.idx, row, id),
                              !.heap = h,
                              !.todel = todel,
                              !.added = Append(@, AddedEntry(row, dups, 1)),
                              !.backups = Append(@, Backup(st.idx, row, dups, NK)),
                              !.log = Append(@, rec("overwrote", todel))]

\* The identity of the row object made for the n-th row of a batch: an
\* identity no row of the table at the time of the call has.
NewId(ix, n) ==
    LET free == Ascending(Ids \ Live(ix)) IN free[n]

\* (A variant that meets every row with the indices as they were when
\* update was called, not as the earlier rows of the batch left them.)
RECURSIVE AddEntries_WholeBatch(_, _, _, _, _, _)
AddEntries_WholeBatch(st, ix0, batch, n, overwrite, skip) ==
    IF n > Len(batch) \/ st.exc # "none" THEN st
    ELSE AddEntries_WholeBatch(
             AddEntry([st EXCEPT !.idx = ix0], batch[n], NewId(ix0, n), overwrite, skip),
             ix0, batch, n + 1, overwrite, skip)

\* for row in data: self._add_entry(...), stopping at the first exception.
RECURSIVE AddEntries(_, _, _, _, _, _)
AddEntries(st, ix0, batch, n, overwrite, skip) ==
    IF n > Len(batch) \/ st.exc # "none" THEN st
    ELSE AddEntries(AddEntry(st, batch[n], NewId(ix0, n), overwrite, skip),
                    ix0, batch, n + 1, overwrite, skip)

\* The deferred deletions: for col, keys in to_delete.items(): for key in keys.
ToDeletePairs(todel) ==
    Flatten([c \in KeyCols |->
                LET ks == Ascending(todel[c]) IN [i \in 1..Len(ks) |-> <<c, ks[i]>>]])

\* update(data, overwrite, skip_duplicates) on already formatted data.
UpdateRun(ix, h, batch, overwrite, skip) ==
    LET st0 == [idx |-> ix, heap |-> h, added |-> <<>>, backups |-> <<>>,
                todel |-> [c \in KeyCols |-> {}], exc |-> "none", log |-> <<>>]
        st1 == AddEntries(st0, ix, batch, 1, overwrite, skip)
    IN IF st1.exc # "none" THEN st1
       ELSE LET d == DelAll(st1.idx, ToDeletePairs(st1.todel))
            IN [st1 EXCEPT !.idx = d.idx,
                           !.exc = IF d.ok THEN "none" ELSE "KeyError"]

-----------------------------------------------------------------------------
(* _format_data, for a list of rows each a list of the key-column values:  *)
(* a short row is padded with None up to len(columns).                     *)
FormatRow(row) == [c \in Cols |-> IF c <= Len(row) THEN row[c] ELSE None]
FormatData(data) == [i \in 1..Len(data) |-> FormatRow(data[i])]

-----------------------------------------------------------------------------
(* _format_data on the data as the caller passes it.  A row is a record of *)
(* its Python type (kind) and its items; the items of a dict row are its   *)
(* values by column, Missing where the dict has no such key.  Data is a    *)
(* record of its type, its rows and, for a dict, the key of each row.      *)

Missing == -1
RawVals == Vals \cup {None}

ListRow(items) == [kind |-> "list", items |-> items]
TupleRow(items) == [kind |-> "tuple", items |-> items]
DictRow(items) == [kind |-> "dict", items |-> items]
OtherRow == [kind |-> "other", items |-> <<>>]

ListData(rows) == [kind |-> "list", keys |-> <<>>, rows |-> rows]
DictData(keys, rows) == [kind |-> "dict", keys |-> keys, rows |-> rows]
\* Neither a list, a tuple nor a dict: a truthy one ("Uranium") and a falsy
\* one (0, "").
OtherData == [kind |-> "other", keys |-> <<>>, rows |-> <<>>]
FalsyData == [kind |-> "falsy", keys |-> <<>>, rows |-> <<>>]

Shaped(row) == [exc |-> "none", row |-> row]
Malformed(exc) == [exc |-> exc, row |-> <<>>]

\* self._key_columns <= len(row) <= len(self._columns)
ArityOk(n) == NK <= n /\ n <= NC

\* row + [None] * (len(self._columns) - len(row)): a list row is padded, a
\* tuple row cannot be concatenated with a list.
Padded(kind, items) ==
    IF kind = "tuple" THEN Malformed("TypeError") ELSE Shaped(FormatRow(items))

\* A dict row of a list of rows: it has to cover the key columns, and
\* row.get(col) must not be None for any of them.
FormatDictRow(items) ==
    IF \E c \in KeyCols : items[c] = Missing THEN Malformed("ValueError")
    ELSE LET new_row == [c \in Cols |-> IF items[c] = Missing THEN None ELSE items[c]]
         IN IF \E c \in KeyCols : new_row[c] = None THEN Malformed("ValueError")
            ELSE Shaped(new_row)

\* One row of a list (or tuple) of rows.
FormatListEntry(row) ==
    CASE row.kind \in {"list", "tuple"} ->
           IF ~ArityOk(Len(row.items)) THEN Malformed("ValueError")
           ELSE Padded(row.kind, row.items)
      [] row.kind = "dict" -> FormatDictRow(row.items)
      [] OTHER -> Malformed("ValueError")

\* One item of a dict primary_key -> rest of the row.
FormatDictEntry(primary_key, row) ==
    IF row.kind \in {"list", "tuple"} THEN
        IF ~ArityOk(Len(row.items) + 1) THEN Malformed("ValueError")
        ELSE Padded(row.kind, <<primary_key>> \o row.items)
    ELSE Malformed("ValueError")

\* The loop over the rows: the first row that fails ends it, and what was
\* shaped so far is dropped with the exception.
RECURSIVE FormatEntries(_, _, _)
FormatEntries(data, n, shaped) ==
    IF n > Len(data.rows) THEN [exc |-> "none", rows |-> shaped]
    ELSE LET r == IF data.kind = "dict"
                  THEN FormatDictEntry(data.keys[n], data.rows[n])
                  ELSE FormatListEntry(data.rows[n])
         IN IF r.exc # "none" THEN [exc |-> r.exc, rows |-> <<>>]
            ELSE FormatEntries(data, n + 1, Append(shaped, r.row))

FormatRaw(data) ==
    IF data.kind \in {"list", "dict"} THEN FormatEntries(data, 1, <<>>)
    ELSE [exc |-> "ValueError", rows |-> <<>>]

\* The result of update() on the shaped rows, with the rows it was given.
WithRows(r, rows) == [idx |-> r.idx, heap |-> r.heap, exc |-> r.exc, rows |-> rows]

\* update() after data = self._format_data(data) returned or raised f.
UpdateShaped(ix, h, f, overwrite, skip) ==
    IF f.exc # "none"
    THEN [idx |-> ix, heap |-> h, exc |-> f.exc, rows |-> <<>>]
    ELSE WithRows(UpdateRun(ix, h, f.rows, overwrite, skip), f.rows)

\* update(data, overwrite, skip_duplicates): _format_data first, and only
\* then the indices.
UpdateRawRun(ix, h, data, overwrite, skip) ==
    UpdateShaped(ix, h, FormatRaw(data), overwrite, skip)

\* bool(data): a list or dict is true when it is not empty.
Truthy(data) ==
    CASE data.kind \in {"list", "dict"} -> Len(data.rows) > 0
      [] data.kind = "other" -> TRUE
      [] OTHER -> FALSE

\* A constructor that raises binds no new table: the old one stays.
Constructed(r, ix, h) ==
    IF r.exc # "none" THEN [r EXCEPT !.idx = ix, !.heap = h] ELSE r

EmptyIdx == [c \in KeyCols |-> <<>>]
EmptyHeap == [i \in Ids |-> NoRow]

\* MultiDirMap(columns, key_columns, data): empty indices, and update(data)
\* if data.
ConstructRun(ix, h, data) ==
    IF ~Truthy(data)
    THEN [idx |-> EmptyIdx, heap |-> EmptyHeap, exc |-> "none", rows |-> <<>>]
    ELSE Constructed(UpdateRawRun(EmptyIdx, EmptyHeap, data, "primary", FALSE), ix, h)

\* (A variant that updates with overwrite="all".)
SetItemRun_OverwriteAll(ix, h, key, value) ==
    UpdateRawRun(ix, h, DictData(<<key>>, <<value>>), "all", FALSE)

\* self[key] = value: self.update({key: value}).
SetItemRun(ix, h, key, value) ==
    UpdateRawRun(ix, h, DictData(<<key>>, <<value>>), "primary", FALSE)

-----------------------------------------------------------------------------
(* __delitem__, pop, popitem, clear *)

\* The <<col, key>> pairs of a row's key columns, as item.asdict().items()
\* restricted to the key columns from column `from` on.
RowPairs(h, id, from) == [i \in 1..(NK - from + 1) |-> <<from + i - 1, h[id][from + i - 1]>>]

DelItemRun(ix, h, key) ==
    IF ~Has(ix[Primary], key) THEN [idx |-> ix, exc |-> "KeyError", ret |-> 0]
    ELSE LET item == Get(ix[Primary], key)
             d == DelAll(ix, RowPairs(h, item, Primary))
         IN [idx |-> d.idx, exc |-> IF d.ok THEN "none" ELSE "KeyError", ret |-> item]

PopRun(ix, h, key, hasDefault) ==
    IF ~Has(ix[Primary], key)
    THEN [idx |-> ix, exc |-> IF hasDefault THEN "none" ELSE "KeyError", ret |-> 0]
    ELSE DelItemRun(ix, h, key)

PopItemRun(ix, h) ==
    IF Len(ix[Primary]) = 0 THEN [idx |-> ix, exc |-> "KeyError", ret |-> 0]
    ELSE LET n == Len(ix[Primary])
             item == ix[Primary][n][2]
             popped == [ix EXCEPT ![Primary] = SubSeq(@, 1, n - 1)]
             d == DelAll(popped, RowPairs(h, item, Primary + 1))
         IN [idx |-> d.idx, exc |-> IF d.ok THEN "none" ELSE "KeyError",
             ret |-> IF d.ok THEN ix[Primary][n] ELSE 0]

\* (A variant that clears the primary index only.)
ClearRun_PrimaryOnly(ix) == [c \in KeyCols |-> IF c = Primary THEN <<>> ELSE ix[c]]

ClearRun(ix) == [c \in KeyCols |-> <<>>]

-----------------------------------------------------------------------------
(* MultiDirMapRowBase.__setattr__ and MultiDirMap._modify_row_attr *)

\* (A variant that takes a write of the current value for a change.)
Untracked_OtherColumnsOnly(h, id, col, value) == col \notin KeyCols

\* if value == row[col] or col not in self._key_dicts: return
Untracked(h, id, col, value) == value = h[id][col] \/ col \notin KeyCols

\* (A variant of __setattr__ that sets the field before it tells the table.)
RowAfterRaise_Written(h, written) == written

\* __setattr__ sets the field after _modify_row_attr: when that raises
\* DuplicateKeyError the row is as it was.
RowAfterRaise(h, written) == h

\* (A variant that files the row under the new key and keeps the old one.)
DelOld_Keeps(d, old_value) == d

\* del self._key_dicts[col][old_value]
DelOld(d, old_value) == Del(d, old_value)

SetAttrRun(ix, h, id, col, value) ==
    LET old == h[id][col]
        written == [h EXCEPT ![id][col] = value]
    IN IF Untracked(h, id, col, value)
       THEN [idx |-> ix, heap |-> written, exc |-> "none"]
       ELSE IF Has(ix[col], value)
       THEN [idx |-> ix, heap |-> RowAfterRaise(h, written), exc |-> "DuplicateKeyError"]
       ELSE LET put == [ix EXCEPT ![col] = Put(@, value, id)]
            IN IF ~Has(put[col], old)
               THEN [idx |-> put, heap |-> h, exc |-> "KeyError"]
               ELSE [idx |-> [put EXCEPT ![col] = DelOld(@, old)],
                     heap |-> written, exc |-> "none"]

-----------------------------------------------------------------------------
(* MultiDirMap.__eq__.  A table is compared through its column list, its   *)
(* key-column count and its primary index; the operand is a record of      *)
(* what __eq__ reads of it: primary[i] is <<key, field values of the row>>.*)

\* columns and key_columns of the table under study, and a second schema.
Columns == [c \in Cols |-> c]
RenamedColumns == [c \in Cols |-> IF c = NC THEN NC + 1 ELSE c]

\* What __eq__ reads of a table with indices ix and rows h.
TableOf(columns, key_columns, ix, h) ==
    [kind |-> "table", columns |-> columns, key_columns |-> key_columns,
     primary |-> [i \in 1..Len(ix[Primary]) |->
                     <<ix[Primary][i][1], h[ix[Primary][i][2]]>>]]

\* An operand that is no MultiDirMap.
NotATable == [kind |-> "other", columns |-> <<>>, key_columns |-> 0, primary |-> <<>>]

\* MultiDirMapRowBase.__eq__: the lists of field values are equal.
RowEq(r1, r2) == r1 = r2

\* (A variant that compares as OrderedDict does, order included.)
DictEq_Ordered(d1, d2) == d1 = d2

\* ReadOnlyDict.__eq__, dict.__eq__: as many keys, and every key of d1 is a
\* key of d2 with an equal value.
DictEq(d1, d2) ==
    /\ Len(d1) = Len(d2)
    /\ \A i \in 1..Len(d1) : Has(d2, d1[i][1]) /\ RowEq(d1[i][2], Get(d2, d1[i][1]))

\* self == other; same tells that other is self.
TableEq(t1, t2, same) ==
    IF same THEN TRUE
    ELSE IF t2.kind # t1.kind THEN FALSE
    ELSE /\ t1.columns = t2.columns
         /\ t1.key_columns = t2.key_columns
         /\ DictEq(t1.primary, t2.primary)

-----------------------------------------------------------------------------
\* The rows a caller passes: the key-column values, in column order.
Rows == [KeyCols -> Vals]
Batches == UNION {[1..n -> Rows] : n \in 1..MaxBatch}

NoCall ==
    [op |-> "none", batch |-> <<>>, overwrite |-> "none", skip |-> FALSE,
     key |-> None, dflt |-> FALSE, row |-> 0, col |-> 0, val |-> None,
     data |-> ListData(<<>>), value |-> OtherRow, method |-> "none",
     other |-> NotATable, same |-> FALSE,
     exc |-> "none", ret |-> 0,
     pidx |-> [c \in KeyCols |-> <<>>], pheap |-> [i \in Ids |-> NoRow]]

Call(op) == [NoCall EXCEPT !.op = op, !.pidx = idx, !.pheap = heap]

Idle == last.op = "none" /\ calls < MaxCalls

Init ==
    /\ idx = [c \in KeyCols |-> <<>>]
    /\ heap = [i \in Ids |-> NoRow]
    /\ last = NoCall
    /\ calls = 0
    /\ ro = Locked

\* The call returns or raises: r is what it left, call what the caller
\* passed, flags the locks of the indices when it was made, entered whether
\* it got into its with block.
Done(r, call, flags, entered) ==
    /\ idx' = r.idx
    /\ heap' = Collect(r.idx, r.heap)
    /\ last' = [call EXCEPT !.exc = r.exc]
    /\ ro' = Writable(flags, entered, r.exc)
    /\ calls' = calls + 1

Update ==
    /\ Idle
    /\ \E batch \in Batches, overwrite \in Policies, skip \in BOOLEAN :
         Done(UpdateRun(idx, heap, FormatData(batch), overwrite, skip),
              [Call("update") EXCEPT !.batch = FormatData(batch),
                                     !.overwrite = overwrite, !.skip = skip],
              ro, TRUE)

DelItem ==
    /\ Idle
    /\ \E key \in Vals :
         LET r == DelItemRun(idx, heap, key)
         IN /\ idx' = r.idx
            /\ heap' = Collect(r.idx, heap)
            /\ last' = [Call("delitem") EXCEPT !.key = key, !.exc = r.exc]
            /\ ro' = Writable(ro, TRUE, r.exc)
    /\ calls' = calls + 1

Pop ==
    /\ Idle
    /\ \E key \in Vals, hasDefault \in BOOLEAN :
         LET r == PopRun(idx, heap, key, hasDefault)
         IN /\ idx' = r.idx
            /\ heap' = Collect(r.idx, heap)
            /\ last' = [Call("pop") EXCEPT !.key = key, !.dflt = hasDefault,
                            !.exc = r.exc, !.ret = r.ret]
            /\ ro' = Writable(ro, Has(idx[Primary], key), r.exc)
    /\ calls' = calls + 1

PopItem ==
    /\ Idle
    /\ LET r == PopItemRun(idx, heap)
       IN /\ idx' = r.idx
          /\ heap' = Collect(r.idx, heap)
          /\ last' = [Call("popitem") EXCEPT !.exc = r.exc, !.ret = r.ret]
          /\ ro' = Writable(ro, Len(idx[Primary]) > 0, r.exc)
    /\ calls' = calls + 1

Clear ==
    /\ Idle
    /\ idx' = ClearRun(idx)
    /\ heap' = Collect(ClearRun(idx), heap)
    /\ last' = Call("clear")
    /\ ro' = Writable(ro, TRUE, "none")
    /\ calls' = calls + 1

\* row.col = value, on a row obtained from one of the table's indices.
SetAttr ==
    /\ Idle
    /\ \E id \in Live(idx), col \in Cols, value \in FieldVals :
         LET r == SetAttrRun(idx, heap, id, col, value)
         IN /\ idx' = r.idx
            /\ heap' = Collect(r.idx, r.heap)
            /\ last' = [Call("setattr") EXCEPT !.row = id, !.col = col,
                            !.val = value, !.exc = r.exc]
            /\ ro' = Writable(ro, /\ value # heap[id][col]
                                  /\ col \in KeyCols
                                  /\ ~Has(idx[col], value), r.exc)
    /\ calls' = calls + 1

\* The caller is done with the result of the call.
Return ==
    /\ last.op # "none"
    /\ last' = NoCall
    /\ UNCHANGED <<idx, heap, calls, ro>>

\* A mutating or reading method called on one of the table's indices itself
\* (m.symbol.pop(key), ...), with some key and, where one is taken, a value.
IndexOp ==
    /\ Idle
    /\ \E c \in KeyCols, op \in IndexOps, key \in Vals :
         LET r == IndexOpRun(idx[c], ro[c], op, key, None)
         IN /\ idx' = [idx EXCEPT ![c] = r.d]
            /\ heap' = Collect([idx EXCEPT ![c] = r.d], heap)
            /\ last' = [Call("index") EXCEPT !.col = c, !.method = op, !.key = key,
                            !.exc = r.exc, !.ret = r.ret]
    /\ UNCHANGED ro
    /\ calls' = calls + 1

\* self[key] = value, with a list of the values of the other key columns;
\* the values are those of the batches and one no batch row carries.
SetItem ==
    /\ Idle
    /\ \E key \in Vals, rest \in [1..(NK - 1) -> FieldVals] :
         Done(SetItemRun(idx, heap, key, ListRow(rest)),
              [Call("setitem") EXCEPT !.key = key, !.value = ListRow(rest),
                   !.data = DictData(<<key>>, <<ListRow(rest)>>),
                   !.batch = <<FormatRow(<<key>> \o rest)>>,
                   !.overwrite = "primary"],
              ro, TRUE)

\* The table under study, as __eq__ reads it.
Self == TableOf(Columns, NK, idx, heap)

\* MultiDirMap(Columns, NK, rows) for a list of list rows.
Built(rows) ==
    ConstructRun(EmptyIdx, EmptyHeap, ListData([i \in 1..Len(rows) |-> ListRow(rows[i])]))

\* A table of some schema made from at most one list row that gives all
\* len(columns) values: whatever its key columns are, its primary index
\* holds that row under its first value.
SmallTable(columns, key_columns, rows) ==
    [kind |-> "table", columns |-> columns, key_columns |-> key_columns,
     primary |-> [i \in 1..Len(rows) |-> <<rows[i][Primary], rows[i]>>]]

\* The operands the table is compared with: tables of its own schema made
\* from no row, one row or a batch of rows; tables of the other column list
\* or of another key-column count (one less, or key_columns=None) made from
\* no row or one row, its data column None; and something that is no table.
Operands ==
    {TableOf(Columns, NK, Built(b).idx, Built(b).heap) :
        b \in {r \in Batches \cup {<<>>} : Built(r).exc = "none"}}
    \cup {SmallTable(cs, k, b) :
            cs \in {Columns, RenamedColumns}, k \in {NK - 1, NK, NC},
            b \in {<<>>} \cup {<<FormatRow(r)>> : r \in Rows}}
    \cup {NotATable}

\* self == other, for an operand other than self, and self == self.
Eq ==
    /\ Idle
    /\ \E other \in Operands, same \in BOOLEAN :
         LET operand == IF same THEN Self ELSE other
         IN last' = [Call("eq") EXCEPT !.other = operand, !.same = same,
                         !.ret = TableEq(Self, operand, same)]
    /\ UNCHANGED <<idx, heap, ro>>
    /\ calls' = calls + 1

\* MultiDirMap(Columns, NK, [row.aslist() for row in self.values()]) == self,
\* between two calls: the constructor may raise; it makes another table, so
\* it is no call on the table under study and leaves it as it is.
RoundTrip ==
    /\ last.op = "none"
    /\ LET r == Built([i \in 1..Len(idx[Primary]) |-> heap[idx[Primary][i][2]]])
       IN last' = [Call("roundtrip") EXCEPT
                      !.exc = r.exc,
                      !.other = TableOf(Columns, NK, r.idx, r.heap),
                      !.ret = r.exc = "none" /\
                              TableEq(TableOf(Columns, NK, r.idx, r.heap), Self, FALSE)]
    /\ UNCHANGED <<idx, heap, ro, calls>>

\* The calls that can take rows out of the table, and the rows the last call
\* took out: the caller may have kept a reference to one (pop returns it).
Removers == {"delitem", "pop", "popitem", "clear", "setitem", "update"}
Gone == Live(last.pidx) \ Live(idx)

\* row.col = value on a row the call just made took out of the table, for a
\* key column col (after update: after an update of one row).
StaleSetAttr ==
    /\ last.op \in Removers /\ calls < MaxCalls
    /\ last.op = "update" => Len(last.batch) = 1
    /\ \E id \in Gone, col \in KeyCols, value \in FieldVals :
         Done(SetAttrRun(idx, [heap EXCEPT ![id] = last.pheap[id]], id, col, value),
              [Call("stalesetattr") EXCEPT
                   !.row = id, !.col = col, !.val = value,
                   !.pheap = [heap EXCEPT ![id] = last.pheap[id]]],
              ro,
              value # last.pheap[id][col] /\ ~Has(idx[col], value))

Next ==
    \/ Update \/ DelItem \/ Pop \/ PopItem \/ Clear \/ SetAttr \/ SetItem
    \/ IndexOp \/ Eq \/ RoundTrip \/ StaleSetAttr \/ Return

Spec == Init /\ [][Next]_vars

-----------------------------------------------------------------------------
(* The calls that take data as the caller writes it: update, construction  *)
(* and self[key] = value, on data of every shape _format_data tells apart. *)

\* Longest sequence of such calls made on one table.
MaxRawCalls == 2

\* The key-column values of a row, at most one of them None.
KeyVectors == {v \in [KeyCols -> RawVals] : Cardinality({c \in KeyCols : v[c] = None}) <= 1}

Ones(n) == [c \in 1..n |-> 1]

\* Rows of a list of rows: lists of the key columns' values, a list too
\* short, a full one and one too long; tuples; dicts with and without every
\* key column; and a row that is no collection.
RawRows ==
    {ListRow(v) : v \in KeyVectors \cup {Ones(NK - 1), Ones(NC), Ones(NC + 1)}}
    \cup {TupleRow(Ones(NK)), TupleRow(Ones(NK - 1))}
    \cup {DictRow(v \o <<Missing>>) : v \in KeyVectors}
    \cup {DictRow([c \in Cols |-> IF c = m THEN Missing ELSE 1]) : m \in KeyCols}
    \cup {DictRow(Ones(NC)), OtherRow}

\* The values of a dict primary_key -> rest of the row.
RawRests ==
    {ListRow(v) : v \in [1..(NK - 1) -> RawVals] \cup {Ones(NK - 2), Ones(NC)}}
    \cup {TupleRow(Ones(NK - 1)), DictRow(Ones(NC)), OtherRow}

\* The data of a call: one row, or a well-formed list row followed by any
\* row; a dict of one item, or of a well-formed item followed by any item;
\* a tuple row followed by a short one; an empty list, and the values that
\* are no collection of rows.
RawData ==
    {ListData(<<r>>) : r \in RawRows}
    \cup {ListData(<<ListRow([c \in KeyCols |-> v]), r>>) : v \in Vals, r \in RawRows}
    \cup {DictData(<<k>>, <<r>>) : k \in RawVals, r \in RawRests}
    \cup {d \in {DictData(<<k, j>>, <<ListRow(Ones(NK - 1)), r>>) :
                      k \in Vals, j \in RawVals, r \in RawRests} :
                d.keys[1] # d.keys[2]}
    \cup {ListData(<<TupleRow(Ones(NK)), ListRow(Ones(NK - 1))>>)}
    \cup {ListData(<<>>), OtherData, FalsyData}

IdleRaw == last.op = "none" /\ calls < MaxRawCalls

\* The same for a call that shaped its data itself: the rows it shaped are
\* kept with the call.
Finish(r, call, flags, entered) ==
    Done(r, [call EXCEPT !.batch = r.rows], flags, entered)

\* A constructor that raises leaves the caller the table he had, a
\* constructor that returns a table of new indices.
FinishNew(r, call, entered) ==
    Finish(r, call, IF r.exc # "none" THEN ro ELSE Locked, entered /\ r.exc = "none")

\* update(data) enters _writable once _format_data has returned.
Entered(data) == FormatRaw(data).exc = "none"

UpdateRaw ==
    /\ IdleRaw
    /\ \E data \in RawData, overwrite \in Policies, skip \in BOOLEAN :
         Finish(UpdateRawRun(idx, heap, data, overwrite, skip),
                [Call("update") EXCEPT !.data = data, !.overwrite = overwrite,
                                       !.skip = skip],
                ro, Entered(data))

Construct ==
    /\ IdleRaw
    /\ \E data \in RawData :
         FinishNew(ConstructRun(idx, heap, data),
                   [Call("construct") EXCEPT !.data = data, !.overwrite = "primary"],
                   Truthy(data) /\ Entered(data))

SetItemRaw ==
    /\ IdleRaw
    /\ \E key \in RawVals, value \in RawRests :
         Finish(SetItemRun(idx, heap, key, value),
                [Call("setitem") EXCEPT !.key = key, !.value = value,
                     !.data = DictData(<<key>>, <<value>>), !.overwrite = "primary"],
                ro, Entered(DictData(<<key>>, <<value>>)))

NextFormat == UpdateRaw \/ Construct \/ SetItemRaw \/ Return

SpecFormat == Init /\ [][NextFormat]_vars

-----------------------------------------------------------------------------
(* Properties.  A state with last.op # "none" is the state right after a   *)
(* public call returned or raised; last.pidx and last.pheap are the state  *)
(* the call was made in.                                                   *)

Raised(op, exc) == last.op = op /\ last.exc = exc

\* C1: when update(data, overwrite, skip_duplicates=False) raises
\* DuplicateKeyError, every key-column index holds exactly the key -> row
\* pairs, in exactly the key order, that it held before the call.
C1_UpdateIsAtomic ==
    (Raised("update", "DuplicateKeyError") /\ ~last.skip) => idx = last.pidx

\* C2: after any sequence of public calls, for every key column c and every
\* entry (k, row) of c's index, the row's field c equals k.
C2_KeyEqualsField ==
    \A c \in KeyCols : \A i \in 1..Len(idx[c]) : heap[idx[c][i][2]][c] = idx[c][i][1]

\* C3: after any sequence of public calls, every key-column index has the
\* same number of entries, the length of the table.
C3_EqualCardinality ==
    \A c \in KeyCols : Len(idx[c]) = Len(idx[Primary])

\* C4: after any sequence of public calls, every row of the primary index is
\* filed in every key-column index under its value for that column, as the
\* very same row object.
C4_RowReachableEverywhere ==
    \A i \in 1..Len(idx[Primary]) : \A c \in KeyCols :
        LET r == idx[Primary][i][2]
        IN Has(idx[c], heap[r][c]) /\ Get(idx[c], heap[r][c]) = r

\* C5: after any sequence of public calls, no two distinct rows of the
\* primary index have equal values in the same key column.
C5_KeyValuesUnique ==
    \A i, j \in 1..Len(idx[Primary]) : \A c \in KeyCols :
        LET r == idx[Primary][i][2]
            q == idx[Primary][j][2]
        IN r # q => heap[r][c] # heap[q][c]

-----------------------------------------------------------------------------
(* The last call, when it was an update: its batch, the run of the model   *)
(* on the state it was made in, and what the caller can tell from outside. *)

IsUpdate == last.op = "update"
Run == UpdateRun(last.pidx, last.pheap, last.batch, last.overwrite, last.skip)

\* Whether the value of row in key column c is a key of c's index in ix.
Collides(ix, row, c) == row[c] \in Keys(ix[c])
CollidesAnywhere(ix, row) == \E c \in KeyCols : Collides(ix, row, c)

\* The decision table of the overwrite policies.
MayInsert(policy, primaryCollides, secondaryCollides) ==
    CASE policy = "none" -> FALSE
      [] policy = "primary" -> ~secondaryCollides
      [] policy = "secondary" -> ~primaryCollides
      [] policy = "all" -> TRUE

\* The row objects the call filed in the indices.
NewRows == Live(idx) \ Live(last.pidx)

\* C6: a batch row that collides in at least one key column is inserted
\* exactly when the policy table allows it, whatever rows the colliding
\* entries belong to: for a one-row batch the row is filed iff allowed, and a
\* row that is not allowed leaves every index as it was and raises
\* DuplicateKeyError iff skip_duplicates is off; and every row of a longer
\* batch is decided by the table on the flags it met.
C6_PolicyDecision ==
    IsUpdate =>
      /\ (Len(last.batch) = 1 /\ CollidesAnywhere(last.pidx, last.batch[1])) =>
           LET row == last.batch[1]
               may == MayInsert(last.overwrite, Collides(last.pidx, row, Primary),
                          \E c \in KeyCols \ {Primary} : Collides(last.pidx, row, c))
           IN /\ (NewRows # {}) <=> may
              /\ ~may => /\ idx = last.pidx
                         /\ (last.exc = "DuplicateKeyError") <=> ~last.skip
              /\ may => last.exc # "DuplicateKeyError"
      /\ \A n \in 1..Len(Run.log) :
           LET d == Run.log[n].dups
           IN AnyDup(d) =>
                ((Run.log[n].outcome = "overwrote") <=>
                    MayInsert(last.overwrite, d[Primary],
                              \E c \in KeyCols \ {Primary} : d[c]))

\* C6 witness: a one-row update under policy primary whose row collides in
\* the primary column with one row and in a secondary column with another,
\* and is rejected.
C6_Witness ==
    /\ IsUpdate /\ Len(last.batch) = 1 /\ last.overwrite = "primary"
    /\ last.exc = "DuplicateKeyError"
    /\ LET row == last.batch[1]
       IN /\ Collides(last.pidx, row, Primary)
          /\ \E c \in KeyCols \ {Primary} :
                /\ Collides(last.pidx, row, c)
                /\ Get(last.pidx[c], row[c]) # Get(last.pidx[Primary], row[Primary])

-----------------------------------------------------------------------------
\* A table state in which the indices agree: every entry is filed under its
\* row's own value, and every index holds exactly the rows of the primary.
Consistent(ix, h) ==
    /\ \A c \in KeyCols : \A i \in 1..Len(ix[c]) :
          /\ h[ix[c][i][2]][c] = ix[c][i][1]
          /\ \A e \in KeyCols :
                /\ Has(ix[e], h[ix[c][i][2]][e])
                /\ Get(ix[e], h[ix[c][i][2]][e]) = ix[c][i][2]

\* The n-th row of the batch was filed in the indices.
Inserted(n) == Run.log[n].outcome \in {"added", "overwrote"}

\* A later row of the batch that was filed carries one of the n-th row's key
\* values (and so takes that key over).
LaterShares(n) ==
    \E m \in (n + 1)..Len(Run.log) :
        Inserted(m) /\ \E c \in KeyCols : last.batch[m][c] = last.batch[n][c]

\* The field values of the row filed under the n-th row's primary key when
\* the n-th row is processed: the last earlier batch row filed under that
\* key, else the row the primary index held when the call was made.
Replaced(n) ==
    LET key == last.batch[n][Primary]
        earlier == {m \in 1..(n - 1) : Inserted(m) /\ last.batch[m][Primary] = key}
    IN IF earlier # {}
       THEN last.batch[CHOOSE m \in earlier : \A k \in earlier : k <= m]
       ELSE last.pheap[Get(last.pidx[Primary], key)]

\* The n-th row of the batch met a collision on the primary key only: its
\* primary key was a key of the primary index, none of its secondary values
\* was a key of its index, and the row it replaced has other secondary values.
PrimaryOnly(n) ==
    LET d == Run.log[n].dups
    IN /\ d[Primary]
       /\ \A c \in KeyCols \ {Primary} :
             ~d[c] /\ Replaced(n)[c] # last.batch[n][c]

-----------------------------------------------------------------------------
\* A row of the batch that was filed carries value v in key column c.
Carried(c, v) == \E m \in 1..Len(Run.log) : Inserted(m) /\ last.batch[m][c] = v

\* The claim of C8 for one call: every filed batch row with a new primary key
\* (and that no later row of the batch took a key from), for every secondary
\* column in which it met an existing row: that row's primary key is gone,
\* the contested key maps to the batch row, and the existing row's other key
\* values (those no batch row carries) are keys no more.
SecondaryEvicts ==
    (IsUpdate /\ last.overwrite = "secondary" /\ last.exc = "none") =>
      \A n \in 1..Len(Run.log) : \A c \in KeyCols \ {Primary} :
        LET d == Run.log[n].dups
            old == Run.heap[Run.log[n].found[c]]
        IN (Inserted(n) /\ ~d[Primary] /\ d[c] /\ ~LaterShares(n)) =>
             /\ ~Has(idx[Primary], old[Primary])
             /\ Has(idx[c], last.batch[n][c])
             /\ Get(idx[c], last.batch[n][c]) = Run.log[n].id
             /\ \A e \in KeyCols : ~Carried(e, old[e]) => ~Has(idx[e], old[e])

\* C8: after a successful update under policy secondary, an existing row one
\* of whose secondary key values a batch row with a new primary key carries
\* is evicted entirely and the contested key maps to the batch row (stated
\* for calls made on a table whose indices agree).
C8_SecondaryEvicts ==
    Consistent(last.pidx, last.pheap) => SecondaryEvicts

-----------------------------------------------------------------------------
\* The claim of C9 for one call.
OverwriteAll ==
    (IsUpdate /\ last.overwrite = "all") =>
      /\ last.exc # "DuplicateKeyError"
      /\ last.exc = "none" =>
           /\ \A n \in 1..Len(last.batch) :
                ~LaterShares(n) =>
                   \A c \in KeyCols :
                      /\ Has(idx[c], last.batch[n][c])
                      /\ Get(idx[c], last.batch[n][c]) = Run.log[n].id
           /\ \A r \in Live(last.pidx) :
                (\E n \in 1..Len(last.batch), c \in KeyCols :
                     last.pheap[r][c] = last.batch[n][c]) => r \notin Live(idx)
           /\ \A m \in 1..Len(last.batch) :
                LaterShares(m) => Run.log[m].id \notin Live(idx)

\* C9: update with overwrite=all never raises DuplicateKeyError, and after
\* it returns every batch row none of whose key values a later row of the
\* batch uses is filed under its value in every index, and every row that
\* shared a key value with a later-processed batch row is in no index
\* (stated for calls made on a table whose indices agree).
C9_OverwriteAll ==
    Consistent(last.pidx, last.pheap) => OverwriteAll

-----------------------------------------------------------------------------
\* The rows of the batch that were not skipped, in batch order.
RECURSIVE NotSkipped(_)
NotSkipped(n) ==
    IF n = 0 THEN <<>>
    ELSE NotSkipped(n - 1) \o
         (IF Run.log[n].outcome = "skipped" THEN <<>> ELSE <<last.batch[n]>>)

\* Two table states that differ at most in which identities the rows made by
\* the call have: the same keys in the same order, filed under them rows of
\* the same field values, the same rows of the earlier table, and the same
\* entries sharing one row.
SameTable(ix1, h1, ix2, h2, before) ==
    /\ \A c \in KeyCols :
         /\ KeyList(ix1[c]) = KeyList(ix2[c])
         /\ \A i \in 1..Len(ix1[c]) :
               /\ h1[ix1[c][i][2]] = h2[ix2[c][i][2]]
               /\ (ix1[c][i][2] \in before \/ ix2[c][i][2] \in before)
                     => ix1[c][i][2] = ix2[c][i][2]
    /\ \A c, e \in KeyCols : \A i \in 1..Len(ix1[c]) : \A j \in 1..Len(ix1[e]) :
         (ix1[c][i][2] = ix1[e][j][2]) <=> (ix2[c][i][2] = ix2[e][j][2])

\* C10: with skip_duplicates=True update never raises DuplicateKeyError, and
\* it leaves the table in the state the same update leaves it in with the
\* rows it skipped taken out of the batch (so a call that skips every row
\* changes no index).
C10_SkipDuplicates ==
    (IsUpdate /\ last.skip) =>
      /\ last.exc # "DuplicateKeyError"
      /\ LET kept == NotSkipped(Len(Run.log))
             other == UpdateRun(last.pidx, last.pheap, kept, last.overwrite, TRUE)
         IN /\ other.exc = last.exc
            /\ SameTable(idx, heap, other.idx, other.heap, Live(last.pidx))
            /\ kept = <<>> => idx = last.pidx

\* C10 witness: an update with skip_duplicates=True under policy secondary
\* that skipped one row and filed another over an existing secondary key.
C10_Witness ==
    /\ IsUpdate /\ last.skip /\ last.overwrite = "secondary" /\ last.exc = "none"
    /\ \E n, m \in 1..Len(Run.log) :
          /\ Run.log[n].outcome = "skipped"
          /\ Run.log[m].outcome = "overwrote"
    /\ idx # last.pidx

-----------------------------------------------------------------------------
(* The calls that take data as the caller writes it (SpecFormat). *)

TakesData == last.op \in {"update", "construct", "setitem"}

\* What the format rules call malformed, read off the data itself: a row of
\* a list of rows that is a list or tuple of wrong arity, a dict that does
\* not cover the key columns, or no collection at all; a value of a dict
\* that is no list or tuple, or one of wrong arity for the columns after the
\* primary key; data that is neither a list of rows nor a dict.
MalformedRow(kind, row) ==
    CASE row.kind \in {"list", "tuple"} ->
           LET n == Len(row.items) + (IF kind = "dict" THEN 1 ELSE 0)
           IN n < NK \/ n > NC
      [] row.kind = "dict" ->
           kind = "dict" \/ \E c \in KeyCols : row.items[c] = Missing
      [] OTHER -> TRUE

MalformedData(data) ==
    \/ data.kind \notin {"list", "dict"}
    \/ \E n \in 1..Len(data.rows) : MalformedRow(data.kind, data.rows[n])

Untouched == idx = last.pidx /\ heap = last.pheap

\* C11: a call of update, of the constructor or of self[key] = value whose
\* data is malformed raises ValueError and leaves every index as it was,
\* whatever well-formed rows come before the malformed one.
C11_FormatErrorFirst ==
    (TakesData /\ MalformedData(last.data)) =>
        (last.exc = "ValueError" /\ Untouched)

\* The same for update and self[key] = value on data none of whose rows is a
\* tuple: the part of C11 the code keeps.
FormatErrorOnListsAndDicts ==
    (/\ last.op \in {"update", "setitem"}
     /\ MalformedData(last.data)
     /\ \A n \in 1..Len(last.data.rows) : last.data.rows[n].kind # "tuple") =>
        (last.exc = "ValueError" /\ Untouched)

\* The value the n-th row of the data gives for key column c: None where the
\* row leaves it out.
KeyValue(data, n, c) ==
    LET row == data.rows[n]
        items == IF data.kind = "dict" THEN <<data.keys[n]>> \o row.items
                 ELSE row.items
    IN IF c > Len(items) \/ items[c] = Missing THEN None ELSE items[c]

\* Some row of the data, in one of the accepted shapes, has None for a key
\* column.
HasNoneKey(data) ==
    /\ data.kind \in {"list", "dict"}
    /\ \E n \in 1..Len(data.rows) :
          /\ data.rows[n].kind \in {"list", "tuple", "dict"}
          /\ data.kind = "dict" => data.rows[n].kind # "dict"
          /\ \E c \in KeyCols : KeyValue(data, n, c) = None

\* C12: an update whose data has a row with None for a key column, left out
\* or given explicitly, raises ValueError and changes nothing, and no index
\* ever has the key None.
C12_NoneKeyRejected ==
    /\ (last.op = "update" /\ HasNoneKey(last.data)) =>
          (last.exc = "ValueError" /\ Untouched)
    /\ \A c \in KeyCols : ~Has(idx[c], None)

\* The same for rows that leave the key column out and for dict rows of a
\* list of rows, in data without tuple rows: the part of C12 the code keeps.
NoneKeyRejectedWhereChecked ==
    (/\ last.op = "update"
     /\ last.data.kind \in {"list", "dict"}
     /\ \A n \in 1..Len(last.data.rows) : last.data.rows[n].kind # "tuple"
     /\ \E n \in 1..Len(last.data.rows) :
           LET row == last.data.rows[n]
           IN \/ /\ row.kind = "dict" /\ last.data.kind = "list"
                 /\ \E c \in KeyCols : row.items[c] \in {None, Missing}
              \/ /\ row.kind = "list"
                 /\ Len(row.items) + (IF last.data.kind = "dict" THEN 1 ELSE 0) < NK) =>
        (last.exc = "ValueError" /\ Untouched)

-----------------------------------------------------------------------------
(* Calls made on an index itself (Spec). *)

IsIndexOp == last.op = "index"

\* C13: after every public call each index is locked; a method that changes
\* a dict (item assignment, item deletion, clear, pop, popitem, setdefault,
\* update), called on an index, raises TypeError and leaves every index as it
\* was; lookup, length, iteration and comparison raise no TypeError and
\* change nothing, and the lookup of a key the index has returns its row.
C13_IndicesLocked ==
    /\ \A c \in KeyCols : ro[c]
    /\ IsIndexOp =>
         /\ Untouched
         /\ last.method \in {"setitem", "delitem", "clear", "pop", "popitem",
                              "setdefault", "update"} => last.exc = "TypeError"
         /\ last.method \in {"getitem", "len", "iter", "eq"} =>
               /\ last.exc # "TypeError"
               /\ (last.exc = "none") <=>
                     (last.method = "getitem" => Has(idx[last.col], last.key))
               /\ (last.method = "getitem" /\ last.exc = "none") =>
                     last.ret = Get(idx[last.col], last.key)
               /\ last.method = "len" => last.ret = Len(idx[last.col])

\* C13 witness: setdefault with a key the index lacks, refused on an index
\* that has entries, as the last of MaxCalls calls.
C13_Witness ==
    /\ IsIndexOp /\ last.method = "setdefault" /\ last.exc = "TypeError"
    /\ calls = MaxCalls
    /\ Len(idx[last.col]) > 0
    /\ ~Has(idx[last.col], last.key)

-----------------------------------------------------------------------------
(* Writes to a field of a row that is in the table (Spec). *)

IsSetAttr == last.op = "setattr"
\* The value the field had when the call was made.
OldValue == last.pheap[last.row][last.col]

\* C14: writing to a key-column field of a row of the table a value other
\* than its current one that is a key of that column's index raises
\* DuplicateKeyError and leaves the row's fields and every index, keys and
\* order, as they were.
C14_DuplicateFieldValue ==
    (/\ IsSetAttr /\ last.col \in KeyCols
     /\ last.val # OldValue
     /\ Has(last.pidx[last.col], last.val)) =>
        /\ last.exc = "DuplicateKeyError"
        /\ idx = last.pidx
        /\ heap = last.pheap

\* C14 witness: such a write to a row of a two-row table, with the key of
\* the other row.
C14_Witness ==
    /\ IsSetAttr /\ last.col \in KeyCols \ {Primary}
    /\ last.exc = "DuplicateKeyError"
    /\ last.val # OldValue
    /\ Len(last.pidx[Primary]) = 2
    /\ Get(last.pidx[last.col], last.val) # last.row
    /\ Consistent(last.pidx, last.pheap)

\* The number of entries of index d that refer to row id.
Entries(d, id) == Cardinality({i \in 1..Len(d) : d[i][2] = id})

\* What C15 says of a write of a new key value to a row of the table.
FieldMoved ==
    (/\ IsSetAttr /\ last.col \in KeyCols
     /\ ~Has(last.pidx[last.col], last.val)) =>
        /\ last.exc = "none"
        /\ Has(idx[last.col], last.val)
        /\ Get(idx[last.col], last.val) = last.row
        /\ ~Has(idx[last.col], OldValue)
        /\ heap[last.row][last.col] = last.val
        /\ Entries(idx[last.col], last.row) = 1
        /\ \A c \in KeyCols \ {last.col} : idx[c] = last.pidx[c]
        /\ Len(idx[Primary]) = Len(last.pidx[Primary])

\* C15: writing to a key-column field of a row of the table a value that is
\* no key of that column's index succeeds; afterwards the index maps the
\* value to the row and has the old key no more, the field has the value, the
\* row has exactly one entry in that index, and the other indices and the
\* number of rows are as before.
C15_FieldMoved == FieldMoved

\* The same for writes made on a table whose indices agree: what is left of
\* C15 without the states the update defects leave behind.
FieldMovedOnConsistent == Consistent(last.pidx, last.pheap) => FieldMoved

\* Such a write, to a row of a two-row table whose indices agree.
FieldMovedCase ==
    /\ IsSetAttr /\ last.col \in KeyCols \ {Primary}
    /\ ~Has(last.pidx[last.col], last.val)
    /\ Len(last.pidx[Primary]) = 2
    /\ Consistent(last.pidx, last.pheap)
    /\ last.exc = "none"

\* C16: writing to a field of a row of the table the value it has, or any
\* value to a field that is no key column, raises nothing and leaves every
\* index, keys and order, as it was; the row's field has the written value
\* and every other field of every row is as before.
C16_UntrackedWrite ==
    (IsSetAttr /\ (last.val = OldValue \/ last.col \notin KeyCols)) =>
        /\ last.exc = "none"
        /\ idx = last.pidx
        /\ heap[last.row][last.col] = last.val
        /\ \A i \in Ids : \A c \in Cols :
              (i \in Live(idx) /\ <<i, c>> # <<last.row, last.col>>)
                 => heap[i][c] = last.pheap[i][c]

\* C16 witness: a new value written to the data column of a row of a
\* two-row table.
C16_Witness ==
    /\ IsSetAttr /\ last.exc = "none"
    /\ Len(idx[Primary]) = 2
    /\ last.col \notin KeyCols /\ last.val # OldValue
    /\ heap[last.row][last.col] = last.val

-----------------------------------------------------------------------------
(* del, pop and popitem (Spec). *)

\* Index d without the entries of row id, the others in their order.
RECURSIVE Without(_, _)
Without(d, id) ==
    IF d = <<>> THEN <<>>
    ELSE (IF d[1][2] = id THEN <<>> ELSE <<d[1]>>) \o Without(Tail(d), id)

\* Row id was filed in every index under its own value, once, and is filed
\* nowhere now, and every other entry is where it was.
Removed(id) ==
    \A c \in KeyCols :
        /\ Has(last.pidx[c], last.pheap[id][c])
        /\ Get(last.pidx[c], last.pheap[id][c]) = id
        /\ Entries(last.pidx[c], id) = 1
        /\ idx[c] = Without(last.pidx[c], id)

WasPresent == Has(last.pidx[Primary], last.key)
Filed == Get(last.pidx[Primary], last.key)

\* What C17 says of a del.
Deleted ==
    last.op = "delitem" =>
        IF WasPresent THEN last.exc = "none" /\ Removed(Filed)
        ELSE last.exc = "KeyError" /\ Untouched

\* C17: del of a primary key the table has removes the entry of the row
\* filed under it from the primary index and from every secondary index, where
\* it is filed under the row's value for that column, and changes no entry
\* and no order of the other rows; del of a primary key the table lacks
\* raises KeyError and changes nothing.
C17_Delete == Deleted

\* The same for calls made on a table whose indices agree.
DeletedOnConsistent == Consistent(last.pidx, last.pheap) => Deleted

\* A del of one of two rows of a table whose indices agree.
DeletedCase ==
    /\ last.op = "delitem" /\ WasPresent /\ last.exc = "none"
    /\ Consistent(last.pidx, last.pheap)
    /\ Len(last.pidx[Primary]) = 2 /\ Len(idx[Primary]) = 1

\* What C18 says of a pop.
Popped ==
    last.op = "pop" =>
        IF WasPresent
        THEN /\ last.exc = "none"
             /\ last.ret = Filed
             /\ idx = DelItemRun(last.pidx, last.pheap, last.key).idx
        ELSE /\ Untouched
             /\ last.exc = (IF last.dflt THEN "none" ELSE "KeyError")
             /\ last.ret = None

\* C18: pop of a primary key the table has returns the row filed under it
\* and leaves the table as del of that key does; pop of a key the table lacks
\* returns the default and changes nothing when a default is given, and
\* raises KeyError and changes nothing when none is.
C18_Pop == Popped

\* The same for calls made on a table whose indices agree.
PoppedOnConsistent == Consistent(last.pidx, last.pheap) => Popped

\* A pop of one of two rows of a table whose indices agree.
PoppedCase ==
    /\ last.op = "pop" /\ WasPresent /\ last.exc = "none"
    /\ Consistent(last.pidx, last.pheap)
    /\ Len(last.pidx[Primary]) = 2 /\ Len(idx[Primary]) = 1

\* What C19 says of a popitem.
PoppedItem ==
    last.op = "popitem" =>
        IF Len(last.pidx[Primary]) = 0
        THEN last.exc = "KeyError" /\ Untouched
        ELSE LET n == Len(last.pidx[Primary])
             IN /\ last.exc = "none"
                /\ last.ret = last.pidx[Primary][n]
                /\ idx[Primary] = SubSeq(last.pidx[Primary], 1, n - 1)
                /\ Removed(last.pidx[Primary][n][2])

\* C19: popitem on a table without rows raises KeyError and changes
\* nothing; otherwise it returns the last (key, row) pair of the primary
\* index, removes it from the primary index and the row's entry from every
\* secondary index, and leaves the entries of all other rows as they were.
C19_PopItem == PoppedItem

\* The same for calls made on a table whose indices agree.
PoppedItemOnConsistent == Consistent(last.pidx, last.pheap) => PoppedItem

\* A popitem on a two-row table whose indices agree.
PoppedItemCase ==
    /\ last.op = "popitem" /\ last.exc = "none"
    /\ Consistent(last.pidx, last.pheap)
    /\ Len(last.pidx[Primary]) = 2 /\ Len(idx[Primary]) = 1

-----------------------------------------------------------------------------
(* self[key] = value (Spec). *)

IsSetItem == last.op = "setitem"

\* The row the statement files, its key first.
SetRow == last.batch[1]

\* What update({key: value}, overwrite="primary", skip_duplicates=False)
\* makes of the table the statement was called on.
AsUpdate == UpdateRun(last.pidx, last.pheap, last.batch, "primary", FALSE)

\* The statement ended as that update does: the same exception, the same
\* indices, the same field values in every row filed.
SameAsUpdate(r) ==
    /\ last.exc = r.exc
    /\ idx = r.idx
    /\ \A id \in Live(idx) : heap[id] = r.heap[id]

SecondaryCollision ==
    \E c \in KeyCols \ {Primary} : Collides(last.pidx, SetRow, c)

\* A new row with the statement's values is filed in every index; in the
\* primary index it takes the place of the row filed under the key, if there
\* is one, and that row's entries are gone from the secondary indices; every
\* other entry is where it was.
SetItemFiled(new) ==
    /\ last.exc = "none"
    /\ new \notin Live(last.pidx)
    /\ heap[new] = SetRow
    /\ idx[Primary] =
          IF WasPresent
          THEN [i \in 1..Len(last.pidx[Primary]) |->
                   IF last.pidx[Primary][i][1] = last.key
                   THEN <<last.key, new>> ELSE last.pidx[Primary][i]]
          ELSE Append(last.pidx[Primary], <<last.key, new>>)
    /\ \A c \in KeyCols \ {Primary} :
          idx[c] = Append(IF WasPresent THEN Without(last.pidx[c], Filed)
                          ELSE last.pidx[c],
                          <<SetRow[c], new>>)

\* What C20 says of self[key] = value.
SetItemDone ==
    IsSetItem =>
        /\ SameAsUpdate(AsUpdate)
        /\ IF SecondaryCollision
           THEN last.exc = "DuplicateKeyError" /\ Untouched
           ELSE SetItemFiled(NewId(last.pidx, 1))

\* C20: self[key] = values ends as update({key: values}) with overwrite
\* "primary" and skip_duplicates False ends: if no key value of the new row is
\* in its index the row is added; if only the primary key is, the row filed
\* under it is replaced by the new one; if a secondary key value is,
\* DuplicateKeyError is raised and no index changes.
C20_SetItem == SetItemDone

\* The same for statements on a table whose indices agree.
SetItemOnConsistent == Consistent(last.pidx, last.pheap) => SetItemDone

\* A statement that replaces a row of a two-row table whose indices agree.
SetItemCase ==
    /\ IsSetItem /\ last.exc = "none" /\ WasPresent
    /\ Consistent(last.pidx, last.pheap)
    /\ Len(last.pidx[Primary]) = 2 /\ Len(idx[Primary]) = 2

-----------------------------------------------------------------------------
(* The order of the table after update (Spec). *)

\* The elements of list ks that are keys of index d, in the order of ks.
RECURSIVE Kept(_, _)
Kept(ks, d) ==
    IF ks = <<>> THEN <<>>
    ELSE (IF Has(d, ks[1]) THEN <<ks[1]>> ELSE <<>>) \o Kept(Tail(ks), d)

\* The primary keys the batch brought in, in batch order: those of the rows
\* that were filed under a primary key the index did not have (log is the
\* per-row record of the run).
RECURSIVE Introduced(_, _)
Introduced(log, n) ==
    IF n = 0 THEN <<>>
    ELSE Introduced(log, n - 1) \o
         (IF log[n].outcome \in {"added", "overwrote"} /\ ~log[n].dups[Primary]
          THEN <<last.batch[n][Primary]>> ELSE <<>>)

\* The key order of the primary index after a run with record log.
OrderAfter(log) ==
    Kept(KeyList(last.pidx[Primary]), idx[Primary])
      \o Kept(Introduced(log, Len(log)), idx[Primary])

-----------------------------------------------------------------------------
(* Equality of tables (Spec). *)

\* The table a call was made on, as __eq__ reads it.
Before == TableOf(Columns, NK, last.pidx, last.pheap)

\* The primary-key -> row pairs of a table, rows by their ordered values.
Pairs(t) == {<<t.primary[i][1], t.primary[i][2]>> : i \in 1..Len(t.primary)}

\* C22: two tables compare equal exactly when they have the same column
\* list, the same key-column count and the same primary-key -> row pairs, the
\* rows compared by their ordered values; the order of the pairs plays no
\* part.
C22_Equality ==
    (last.op = "eq" /\ last.other.kind = "table") =>
        (last.ret <=> /\ Before.columns = last.other.columns
                      /\ Before.key_columns = last.other.key_columns
                      /\ Pairs(Before) = Pairs(last.other))

\* C22 witness: a two-row table compared equal with another table that has
\* the same rows in the other order.
C22_Witness ==
    /\ last.op = "eq" /\ ~last.same /\ last.other.kind = "table"
    /\ last.ret
    /\ Len(Before.primary) = 2
    /\ Before.primary # last.other.primary

-----------------------------------------------------------------------------
(* The round trip through the rows' values (Spec). *)

\* What C23 says of a round trip.
RoundTripped == last.op = "roundtrip" => (last.exc = "none" /\ last.ret)

\* C23: for any table reached by public calls, a new table constructed with
\* the same columns and key-column count from the ordered values of the
\* rows, taken in iteration order, is constructed without an exception and
\* equals the table.
C23_RoundTrip == RoundTripped

\* The same for tables whose indices agree.
RoundTrippedOnConsistent == Consistent(last.pidx, last.pheap) => RoundTripped

\* The round trip of a two-row table whose indices agree.
RoundTripCase ==
    /\ last.op = "roundtrip" /\ last.exc = "none"
    /\ Consistent(last.pidx, last.pheap)
    /\ Len(last.pidx[Primary]) = 2 /\ Len(last.other.primary) = 2

-----------------------------------------------------------------------------
(* clear (Spec). *)

\* MultiDirMap(Columns, NK): a new table without rows.
FreshTable == TableOf(Columns, NK, Built(<<>>).idx, Built(<<>>).heap)

\* C24: clear() raises nothing and leaves len(table) 0, every key-column
\* index without entries, and the table equal to a newly constructed table
\* without rows of the same columns and key-column count.
C24_Clear ==
    last.op = "clear" =>
        /\ last.exc = "none"
        /\ Len(idx[Primary]) = 0
        /\ \A c \in KeyCols : idx[c] = <<>>
        /\ TableEq(Self, FreshTable, FALSE)
        /\ TableEq(FreshTable, Self, FALSE)

\* C24 witness: clear() on a table of two rows.
C24_Witness ==
    /\ last.op = "clear"
    /\ Len(last.pidx[Primary]) = 2
    /\ \A c \in KeyCols : Len(last.pidx[c]) = 2 /\ idx[c] = <<>>

-----------------------------------------------------------------------------
(* The lock between calls (Spec). *)

\* C25: the _read_only flag of every key-column index is on when the table
\* is constructed and when any public call has returned or raised, so it
\* is on whenever the caller has control.
C25_LockedBetweenCalls == \A c \in KeyCols : ro[c]

\* C25 witness: the flags are on after an update that raised
\* DuplicateKeyError inside its with block, after rows were filed.
C25_Witness ==
    /\ Raised("update", "DuplicateKeyError")
    /\ Len(last.batch) = 2 /\ Run.log[1].outcome # "rejected"
    /\ \A c \in KeyCols : ro[c]

-----------------------------------------------------------------------------
(* Deferred deletion and keys taken up again (Spec). *)

\* Key k of column c is marked for deletion when row i of the batch has been
\* processed, and row j, a later row, is filed and carries k in column c.
Reclaimed(log, c, k, i, j) ==
    /\ i < j
    /\ k \in log[i].todel[c]
    /\ log[j].outcome \in {"added", "overwrote"}
    /\ last.batch[j][c] = k

\* The last row of the batch that was filed carrying k in column c.
LastClaim(log, c, k) ==
    LET claims == {m \in 1..Len(log) : /\ log[m].outcome \in {"added", "overwrote"}
                                       /\ last.batch[m][c] = k}
    IN CHOOSE m \in claims : \A n \in claims : n <= m

\* What C26 says of a run with record log: the mark of a key taken up again
\* is dropped when the row that takes it is filed, and after the call the
\* key maps to the last batch row that carries it (unless a later row of
\* the batch took a key from that row).
ReclaimKept(log) ==
    \A c \in KeyCols, k \in Vals, i, j \in 1..Len(log) :
        Reclaimed(log, c, k, i, j) =>
            /\ k \notin log[j].todel[c]
            /\ ~LaterShares(LastClaim(log, c, k)) =>
                  /\ Has(idx[c], k)
                  /\ Get(idx[c], k) = log[LastClaim(log, c, k)].id

\* ... and the keys deleted at the end are marked ones no later row took up.
OnlyUnclaimedDeleted(log) ==
    \A c \in KeyCols : \A p \in 1..Len(last.pidx[c]) :
        LET k == last.pidx[c][p][1]
        IN ~Has(idx[c], k) =>
              \E i \in 1..Len(log) :
                  /\ k \in log[i].todel[c]
                  /\ \A j \in (i + 1)..Len(log) : ~Reclaimed(log, c, k, i, j)

Reclaim ==
    (IsUpdate /\ last.exc = "none") =>
        (ReclaimKept(Run.log) /\ OnlyUnclaimedDeleted(Run.log))

\* C26: in a successful update, a key marked for deletion in some column and
\* carried in that column by a later batch row that is filed loses its mark;
\* after the call it is a key of that column's index and maps to the last
\* batch row that carries it; and only marked keys no later row took up are
\* deleted.
C26_Reclaim == Reclaim

\* The same for calls made on a table whose indices agree.
ReclaimOnConsistent == Consistent(last.pidx, last.pheap) => Reclaim

\* Such an update on a table whose indices agree: a key of a row the first
\* batch row replaced is carried by the second batch row and maps to it.
ReclaimCase ==
    /\ IsUpdate /\ last.exc = "none" /\ Len(last.batch) = 2
    /\ Consistent(last.pidx, last.pheap)
    /\ \E c \in KeyCols, k \in Vals :
          /\ Reclaimed(Run.log, c, k, 1, 2)
          /\ Has(idx[c], k) /\ Get(idx[c], k) = Run.log[2].id

-----------------------------------------------------------------------------
(* A key of a superseded row used again in the same batch (Spec). *)

\* The first batch row was filed over existing row r, which it met in key
\* column c and in no other.
Superseded(log, r, c) ==
    /\ log[1].outcome = "overwrote"
    /\ log[1].dups[c] /\ log[1].found[c] = r
    /\ \A e \in KeyCols \ {c} : ~log[1].dups[e]

\* The second batch row uses keys of r only: in some other column than c it
\* carries a value that was r's and that the first batch row does not carry,
\* and each of its other key values is such a value too or is no key of its
\* index when the second row is processed.
Reuses(r, c) ==
    LET mine(e) == /\ last.batch[2][e] = last.pheap[r][e]
                   /\ Has(last.pidx[e], last.batch[2][e])
                   /\ Get(last.pidx[e], last.batch[2][e]) = r
                   /\ last.batch[2][e] # last.batch[1][e]
        free(e) == /\ ~Has(last.pidx[e], last.batch[2][e])
                   /\ last.batch[2][e] # last.batch[1][e]
    IN /\ \E e \in KeyCols \ {c} : mine(e)
       /\ \A e \in KeyCols : mine(e) \/ free(e)

\* An update of two rows, without skip_duplicates, on a table whose indices
\* agree, in which the second row uses keys of the row the first superseded.
ReuseCase(log) ==
    /\ IsUpdate /\ ~last.skip /\ Len(last.batch) = 2
    /\ last.overwrite \in {"primary", "secondary", "all"}
    /\ Consistent(last.pidx, last.pheap)
    /\ \E r \in Live(last.pidx), c \in KeyCols : Superseded(log, r, c) /\ Reuses(r, c)

\* C27: under each of the policies primary, secondary and all, when the first
\* row of a batch has superseded an existing row through one key column and
\* the second row uses, in another key column, a key value that belonged to
\* the superseded row only, update raises no DuplicateKeyError.
C27_ReuseOfSupersededKey ==
    ReuseCase(Run.log) => last.exc = "none"

\* The same under policy all, and under policy secondary when the second row
\* does not use the primary key of the superseded row: what the code keeps
\* of C27, as far as the exception goes.
ReuseWhereAllowed ==
    (/\ ReuseCase(Run.log)
     /\ \/ last.overwrite = "all"
        \/ /\ last.overwrite = "secondary"
           /\ ~Has(last.pidx[Primary], last.batch[2][Primary]))
        => last.exc = "none"

\* Such an update under policy all that returned.
ReuseAllowedCase ==
    ReuseCase(Run.log) /\ last.overwrite = "all" /\ last.exc = "none"

-----------------------------------------------------------------------------
(* Collisions row by row (Spec). *)

\* The keys of column c when the n-th row of the batch is processed: those
\* the index had when update was called and those of the earlier batch rows
\* that were filed.
KeysMet(log, c, n) ==
    Keys(last.pidx[c]) \cup
    {last.batch[m][c] : m \in {i \in 1..(n - 1) : log[i].outcome \in {"added", "overwrote"}}}

\* Every row met, in every key column, exactly those keys.
RowByRow(log) ==
    \A n \in 1..Len(log) : \A c \in KeyCols :
        log[n].dups[c] <=> last.batch[n][c] \in KeysMet(log, c, n)

\* Two rows of the batch have the same value in some key column.
SharesInBatch ==
    \E i, j \in 1..Len(last.batch) : \E c \in KeyCols :
        i # j /\ last.batch[i][c] = last.batch[j][c]

\* Under policy primary: a filed row with the primary key of an earlier filed
\* row of the batch (and that no later row of the batch took a key from) met
\* the last such row under the key and has taken its place, and no earlier
\* such row is in any index.
LaterReplacesEarlier(log) ==
    \A i, j \in 1..Len(log) :
        (/\ i < j
         /\ log[i].outcome \in {"added", "overwrote"}
         /\ log[j].outcome \in {"added", "overwrote"}
         /\ last.batch[i][Primary] = last.batch[j][Primary]
         /\ \A m \in (j + 1)..Len(log) :
               \A c \in KeyCols : last.batch[m][c] # last.batch[j][c]) =>
            /\ log[j].dups[Primary]
            /\ (\A m \in (i + 1)..(j - 1) :
                    \/ log[m].outcome \notin {"added", "overwrote"}
                    \/ last.batch[m][Primary] # last.batch[j][Primary])
                  => log[j].found[Primary] = log[i].id
            /\ \A c \in KeyCols :
                  /\ Has(idx[c], last.batch[j][c])
                  /\ Get(idx[c], last.batch[j][c]) = log[j].id
            /\ log[i].id \notin Live(idx)

RowWise(log) ==
    IsUpdate =>
        /\ RowByRow(log)
        /\ (last.overwrite = "none" /\ ~last.skip /\ SharesInBatch) =>
              (last.exc = "DuplicateKeyError" /\ Untouched)
        /\ (last.overwrite = "primary" /\ last.exc = "none") =>
              LaterReplacesEarlier(log)

\* C28: update meets every row of the batch, in order, with the keys the
\* indices had when it was called and those of the earlier batch rows it
\* filed; so under policy none (skip_duplicates off) a batch in which two
\* rows have the same value in a key column raises DuplicateKeyError and
\* changes nothing, and after a successful update under policy primary a
\* row with the primary key of an earlier row of the batch has replaced that
\* row.
C28_RowByRow == RowWise(Run.log)

\* C28 witness: under policy primary the second row of the batch replaced
\* the first, which had itself replaced a row of the table.
C28_Witness ==
    /\ IsUpdate /\ last.overwrite = "primary" /\ last.exc = "none"
    /\ Len(last.batch) = 2
    /\ last.batch[1][Primary] = last.batch[2][Primary]
    /\ Has(last.pidx[Primary], last.batch[1][Primary])
    /\ Get(idx[Primary], last.batch[2][Primary]) = Run.log[2].id
    /\ Run.log[1].id \notin Live(idx)

\* A batch under policy none whose rows share a key value and collide with
\* no row of the table: it raised DuplicateKeyError and changed nothing.
SharedKeyRejectedCase ==
    /\ IsUpdate /\ last.overwrite = "none" /\ ~last.skip /\ SharesInBatch
    /\ Len(last.pidx[Primary]) > 0
    /\ \A n \in 1..Len(last.batch) : ~CollidesAnywhere(last.pidx, last.batch[n])
    /\ last.exc = "DuplicateKeyError" /\ Untouched

-----------------------------------------------------------------------------
(* Rollback of rows added without a collision (Spec). *)

\* update raised DuplicateKeyError on a row, and every row before it was
\* filed without a collision in any key column.
FailedAfterAdditions(log) ==
    /\ Raised("update", "DuplicateKeyError")
    /\ log[Len(log)].outcome = "rejected"
    /\ \A n \in 1..(Len(log) - 1) : log[n].outcome = "added"

\* C29: when update raises DuplicateKeyError on a row and every row of the
\* batch before it was filed without a collision, every index holds the keys
\* it held before the call, mapped to the same rows, in the same order.
C29_RollbackOfAdditions ==
    FailedAfterAdditions(Run.log) => Untouched

\* C29 witness: on a table with a row, the first row of the batch was filed
\* without a collision, the second was rejected, and the indices are as
\* they were.
C29_Witness ==
    /\ FailedAfterAdditions(Run.log)
    /\ Len(Run.log) = 2
    /\ Len(last.pidx[Primary]) > 0
    /\ Untouched

-----------------------------------------------------------------------------
(* Writes to a row that is no longer in the table (Spec). *)

IsStaleSetAttr == last.op = "stalesetattr"

\* C30: writing a new value to a key-column field of a row that the table
\* holds no more (taken out by del, pop, popitem or clear, or superseded by an
\* update) leaves every index of the table as it was.
C30_StaleHandle ==
    (IsStaleSetAttr /\ last.val # last.pheap[last.row][last.col]) =>
        idx = last.pidx

\* The same when the written value is a key of the column's index: the write
\* raises DuplicateKeyError before it touches an index.
StaleWriteOfExistingKey ==
    (IsStaleSetAttr /\ Has(last.pidx[last.col], last.val)) =>
        (idx = last.pidx /\
         (last.val # last.pheap[last.row][last.col] => last.exc = "DuplicateKeyError"))

\* Such a write, rejected.
StaleWriteRejectedCase ==
    /\ IsStaleSetAttr /\ Has(last.pidx[last.col], last.val)
    /\ last.exc = "DuplicateKeyError"

-----------------------------------------------------------------------------
(* The exceptions of update (Spec). *)

\* What C31 says of an update (its data are well formed in Spec).
OnlyDuplicateKeyError ==
    IsUpdate => last.exc \in {"none", "DuplicateKeyError"}

\* C31: in any sequence of public calls, update on well-formed data raises
\* nothing but DuplicateKeyError: neither the deferred deletion at the end of
\* the batch nor the removal of added entries in the rollback meets a key
\* that its index lacks.
C31_UpdateRaisesOnlyDuplicateKeyError == OnlyDuplicateKeyError

\* The same for calls made on a table whose indices agree.
OnlyDuplicateKeyErrorOnConsistent ==
    Consistent(last.pidx, last.pheap) => OnlyDuplicateKeyError

\* An update of two rows on a two-row table whose indices agree that
\* deleted keys at its end.
DeferredDeletionCase ==
    /\ IsUpdate /\ last.exc = "none" /\ Len(last.batch) = 2
    /\ Consistent(last.pidx, last.pheap)
    /\ Len(last.pidx[Primary]) = 2
    /\ \E c \in KeyCols : Run.todel[c] # {}

====
